---- MODULE Spec2Model ----
(***************************************************************************)
(* Invoice-Scanner: the session store of src/App.tsx (items, activeItemId), *)
(* the extraction client of services/geminiService (src/unnamed/part_000), *)
(* the asynchronous analysis flows that connect them, the editing of       *)
(* results (components/ResultDisplay.tsx) and the CSV exporter.            *)
(*                                                                         *)
(* Three specifications.  Spec is the session from the empty store:        *)
(* uploads, selection, removal, analysis and edits of a field.  FairSpec   *)
(* is Spec with an encoder and an endpoint that always answer.  ExportSpec *)
(* is the review of a store of extracted documents: edits of line items,   *)
(* selection, removal and export; the export reads the store and never     *)
(* writes it, and its texts are modelled character by character.           *)
(*                                                                         *)
(* Execution model.  The browser runs one task at a time.  Every action    *)
(* below is one browser task: a user event handler, or the continuation    *)
(* of a promise (FileReader load/error, endpoint response) together with   *)
(* all the microtask continuations it triggers.  React state updates are   *)
(* functional updaters applied in order, so the store value is the fold of *)
(* the updaters queued so far; handlers of user events read the value of   *)
(* the latest render, which React flushes before the next user event.      *)
(***************************************************************************)
EXTENDS Integers, Sequences, FiniteSets, TLC

VARIABLES
  items,         \* useState<InvoiceSessionItem[]>      (App.tsx:8)
  activeItemId,  \* useState<string | null>             (App.tsx:9)
  nextId,        \* number of crypto.randomUUID() / createObjectURL calls so far
  uploaded,      \* the files argument of the latest handleFilesSelect call
  runs,          \* invocations of handleAnalyzeActive / handleAnalyzeAll and
                 \* the analyzeItem calls each has made
  revokeCount,   \* previewUrl -> number of URL.revokeObjectURL calls on it
  mounted,       \* FALSE once the App component has been unmounted
  exports,       \* per call of handleExportCSV, the files it made the browser
                 \* download: none, or the one text of the CSV blob
  snapshot       \* the collection of the start of the session, as a holder of
                 \* a reference to it (a closure, a rendered prop) reads it now

vars ==
  <<items, activeItemId, nextId, uploaded, runs, revokeCount, mounted, exports,
    snapshot>>

----------------------------------------------------------------------------
(* Bounds of the model *)

\* total number of files uploaded in a session
MaxUploads == 3
\* total number of analysis triggers (analyze-active or analyze-all clicks)
MaxRuns == 2
\* number of distinct documents that are ever sent to analysis
MaxAnalysed == 2
\* number of documents in a store handed to the exporter
MaxDocs == 2
\* number of clicks on the export button
MaxExports == 2

----------------------------------------------------------------------------
(* types.ts *)

IDLE == "IDLE"
ANALYZING == "ANALYZING"
SUCCESS == "SUCCESS"
ERROR == "ERROR"
AppStatus == {IDLE, ANALYZING, SUCCESS, ERROR}

\* the null of `string | null`
Null == "null"
\* JavaScript truthiness of a `string | null` value
Truthy(s) == s # Null /\ s # ""

\* an optional field (result?, error?) is the empty set when undefined
Undefined == {}
Some(v) == {v}

\* the File objects a user can pick: only the name is read by the program
FileNames == <<"a.pdf", "b.png">>
\* the file lists a user drops: one list of each length, neighbours differ
FileList(k) == [j \in 1..k |-> FileNames[((j - 1) % Len(FileNames)) + 1]]

\* the literal of App.tsx:57 (a CJK string, transliterated)
ErrorMessage == "recognition failed"

\* INVOICE_SCHEMA.required, and the two properties the instruction asks the
\* endpoint to return as "" when the document has none
RequiredFields == {"invoiceDate", "invoiceNumber", "totalAmount", "items"}
DefaultedFields == {"poNumber", "quotationNumber"}

----------------------------------------------------------------------------
(* Browser primitives *)

\* crypto.randomUUID(): the n-th call returns a string no other call returns
RandomUUID(n) == "uuid-" \o ToString(n)
\* URL.createObjectURL(file): the n-th call returns a fresh blob URL
CreateObjectURL(n) == "blob:" \o ToString(n)

----------------------------------------------------------------------------
(* Sequence helpers: Array.prototype.map / filter / find / some *)

Ids(its) == {its[i].id : i \in DOMAIN its}
Find(its, id) == its[CHOOSE i \in DOMAIN its : its[i].id = id]
FilterOut(its, id) == SelectSeq(its, LAMBDA i : i.id # id)
IsPending(i) == i.status = IDLE \/ i.status = ERROR

----------------------------------------------------------------------------
(* Records of the asynchronous flows *)

\* an invocation of analyzeItem(item): phase is the await it is suspended at
\* ("encoding": fileToBase64, "requesting": generateContent) or "settled";
\* requests counts its calls of the endpoint, outcome says how it ended
NewTask(id) ==
  [id |-> id, phase |-> "encoding", requests |-> 0, outcome |-> "pending"]

\* a flow is finished when its loop has run every position and every
\* analyzeItem it started has settled
Finished(run) ==
  /\ Len(run.tasks) = Len(run.pending)
  /\ \A p \in DOMAIN run.tasks : run.tasks[p].phase = "settled"

----------------------------------------------------------------------------
Init ==
  /\ items = <<>>
  /\ activeItemId = Null
  /\ nextId = 0
  /\ uploaded = <<>>
  /\ runs = <<>>
  /\ revokeCount = <<>>
  /\ mounted = TRUE
  /\ exports = <<>>
  /\ snapshot = items

----------------------------------------------------------------------------
(* Upload *)

\* the id drawn once, outside the map: every file of an upload shares it
NewItemsSharedId(files, n) ==
  [k \in 1..Len(files) |->
     [id |-> RandomUUID(n + 1), file |-> files[k],
      previewUrl |-> CreateObjectURL(n + k),
      status |-> IDLE, result |-> Undefined, error |-> Undefined]]

\* handleFilesSelect: files.map(file => ({id, file, previewUrl, status: IDLE}))
NewItems(files, n) ==
  [k \in 1..Len(files) |->
     [id |-> RandomUUID(n + k), file |-> files[k],
      previewUrl |-> CreateObjectURL(n + k),
      status |-> IDLE, result |-> Undefined, error |-> Undefined]]

\* the upload that selects its first file only when nothing is selected
SelectAfterUploadKeep(active, newItems) ==
  IF ~Truthy(active) /\ Len(newItems) > 0 THEN newItems[1].id ELSE active

\* handleFilesSelect: both branches of the if / else-if select newItems[0]
SelectAfterUpload(active, newItems) ==
  IF ~Truthy(active) /\ Len(newItems) > 0 THEN newItems[1].id
  ELSE IF Len(newItems) > 0 THEN newItems[1].id
  ELSE active

handleFilesSelect(files) ==
  LET newItems == NewItems(files, nextId) IN
  /\ items' = items \o newItems
  /\ activeItemId' = SelectAfterUpload(activeItemId, newItems)
  /\ nextId' = nextId + Len(files)
  /\ revokeCount' = revokeCount \o [k \in 1..Len(files) |-> 0]
  /\ uploaded' = files
  /\ UNCHANGED <<runs, mounted, exports, snapshot>>

\* UploadArea.handleFileChange / handleDrop: forwards a non-empty file list
FilesSelect ==
  /\ mounted
  /\ \E k \in 1..(MaxUploads - nextId) :
       \E files \in {FileList(k)} :
         /\ Len(files) > 0
         /\ handleFilesSelect(files)

----------------------------------------------------------------------------
(* Selection *)

\* <li onClick={() => setActiveItemId(item.id)}> for an item of the list
SelectItem ==
  /\ mounted
  /\ \E i \in DOMAIN items :
       /\ activeItemId' = items[i].id
       /\ UNCHANGED <<items, nextId, uploaded, runs, revokeCount, mounted,
                      exports, snapshot>>

----------------------------------------------------------------------------
(* Removal and unmount *)

\* URL.revokeObjectURL(url): one more release of that preview reference
RevokeObjectURL(rc, url) ==
  [n \in DOMAIN rc |-> IF CreateObjectURL(n) = url THEN rc[n] + 1 ELSE rc[n]]

\* the removal that forgets to release the preview reference
RevokeOnRemoveNever(rc, its, id) == rc

\* handleRemoveItem: const itemToRemove = items.find(...); if found, revoke
RevokeOnRemove(rc, its, id) ==
  IF id \in Ids(its) THEN RevokeObjectURL(rc, Find(its, id).previewUrl) ELSE rc

\* the removal that leaves the selection as it was
SelectAfterRemoveStale(active, id, newItems) == active

\* the removal that clears the selection whenever the selected item goes
SelectAfterRemoveNone(active, id, newItems) ==
  IF active = id THEN Null ELSE active

\* handleRemoveItem: the selection update made inside the setItems updater
SelectAfterRemove(active, id, newItems) ==
  IF active = id
  THEN (IF Len(newItems) > 0 THEN newItems[1].id ELSE Null)
  ELSE active

handleRemoveItem(id) ==
  LET newItems == FilterOut(items, id) IN
  /\ revokeCount' = RevokeOnRemove(revokeCount, items, id)
  /\ items' = newItems
  /\ activeItemId' = SelectAfterRemove(activeItemId, id, newItems)
  /\ UNCHANGED <<nextId, uploaded, runs, mounted, exports, snapshot>>

\* the remove button of a list row
RemoveItem ==
  /\ mounted
  /\ \E i \in DOMAIN items : handleRemoveItem(items[i].id)

\* the items captured by the effect closure: the effect has no dependencies,
\* so its cleanup sees the items of the first render
EffectItems == <<>>

RECURSIVE RevokeAll(_, _)
RevokeAll(rc, its) ==
  IF its = <<>> THEN rc
  ELSE RevokeAll(RevokeObjectURL(rc, Head(its).previewUrl), Tail(its))

\* useEffect cleanup: runs when the App component unmounts; nothing runs on
\* the store afterwards
Unmount ==
  /\ mounted
  /\ mounted' = FALSE
  /\ revokeCount' = RevokeAll(revokeCount, EffectItems)
  /\ UNCHANGED <<items, activeItemId, nextId, uploaded, runs, exports,
                 snapshot>>

----------------------------------------------------------------------------
(* Inference endpoint and extraction client (geminiService) *)

LineItemWidget ==
  [description |-> "Widget", quantity |-> 2, unitPrice |-> 500, total |-> 1000]

\* a response text: `empty` is text === "" (or undefined), `valid` says
\* whether JSON.parse accepts it, `members` are the "key": value members of
\* the JSON object in textual order
TextEmpty == [empty |-> TRUE, valid |-> FALSE, members |-> <<>>]
TextGarbage == [empty |-> FALSE, valid |-> FALSE, members |-> <<>>]
TextFull ==
  [empty |-> FALSE, valid |-> TRUE,
   members |-> << <<"invoiceDate", "2024-01-31">>, <<"invoiceNumber", "INV-1">>,
                  <<"poNumber", "PO-7">>, <<"quotationNumber", "">>,
                  <<"totalAmount", 1000>>, <<"currency", "USD">>,
                  <<"items", <<LineItemWidget>> >> >>]
TextNoOptional ==
  [empty |-> FALSE, valid |-> TRUE,
   members |-> << <<"invoiceDate", "2024-02-01">>, <<"invoiceNumber", "INV-2">>,
                  <<"totalAmount", 0>>, <<"items", <<>> >> >>]

\* what ai.models.generateContent can do: reject, or resolve with a text
Responses ==
  {[throws |-> TRUE, text |-> TextEmpty]}
    \cup {[throws |-> FALSE, text |-> t] :
            t \in {TextEmpty, TextGarbage, TextFull, TextNoOptional}}

\* JSON.parse of an object text: one property per key, the last member wins
JSONParse(text) ==
  LET m == text.members
      Keys == {m[i][1] : i \in DOMAIN m}
      Last(k) == CHOOSE i \in DOMAIN m :
                   m[i][1] = k /\ \A j \in DOMAIN m : j > i => m[j][1] # k
  IN [k \in Keys |-> m[Last(k)][2]]

\* analyzeInvoiceImage after the await: throw on rejection, on no text and on
\* a parse error; otherwise return JSON.parse(text) as it is
analyzeInvoiceImage(resp) ==
  IF resp.throws THEN [outcome |-> "endpoint_error", data |-> Undefined]
  ELSE IF resp.text.empty THEN [outcome |-> "no_text", data |-> Undefined]
  ELSE IF ~resp.text.valid THEN [outcome |-> "parse_error", data |-> Undefined]
  ELSE [outcome |-> "ok", data |-> Some(JSONParse(resp.text))]

----------------------------------------------------------------------------
(* Orchestrator: analyzeItem *)

\* App.tsx:49  { ...i, status: ANALYZING, error: undefined }
MarkAnalyzing(its, id) ==
  [k \in DOMAIN its |->
     IF its[k].id = id
     THEN [its[k] EXCEPT !.status = ANALYZING, !.error = Undefined]
     ELSE its[k]]

\* the success update that puts the document back when it is not in the list
MarkSuccessUpsert(its, id, result) ==
  IF id \in Ids(its)
  THEN [k \in DOMAIN its |->
          IF its[k].id = id
          THEN [its[k] EXCEPT !.status = SUCCESS, !.result = result]
          ELSE its[k]]
  ELSE Append(its, [id |-> id, file |-> "", previewUrl |-> "",
                    status |-> SUCCESS, result |-> result, error |-> Undefined])

\* App.tsx:54  { ...i, status: SUCCESS, result }
MarkSuccess(its, id, result) ==
  [k \in DOMAIN its |->
     IF its[k].id = id
     THEN [its[k] EXCEPT !.status = SUCCESS, !.result = result]
     ELSE its[k]]

\* the error update that builds a fresh record and so drops the result
MarkErrorDroppingResult(its, id) ==
  [k \in DOMAIN its |->
     IF its[k].id = id
     THEN [status |-> ERROR, error |-> Some(ErrorMessage), result |-> Undefined,
           id |-> its[k].id, file |-> its[k].file, previewUrl |-> its[k].previewUrl]
     ELSE its[k]]

\* the catch block that stores the message and forgets the status
MarkErrorKeepsStatus(its, id) ==
  [k \in DOMAIN its |->
     IF its[k].id = id
     THEN [its[k] EXCEPT !.error = Some(ErrorMessage)]
     ELSE its[k]]

\* App.tsx:57  { ...i, status: ERROR, error: "..." }
MarkError(its, id) ==
  [k \in DOMAIN its |->
     IF its[k].id = id
     THEN [its[k] EXCEPT !.status = ERROR, !.error = Some(ErrorMessage)]
     ELSE its[k]]

\* the loop without its await: every remaining position starts at once
LoopStartsNoAwait(pending, from) ==
  [k \in 1..(Len(pending) + 1 - from) |-> from + k - 1]

\* the positions whose loop body runs before the for-loop of handleAnalyzeAll
\* suspends: `await analyzeItem(item)` suspends it after one iteration
LoopStarts(pending, from) ==
  IF from <= Len(pending) THEN <<from>> ELSE <<>>

\* the synchronous part of analyzeItem for each of these positions, in order:
\* mark the item ANALYZING and start encoding its file
RECURSIVE StartTasks(_, _, _)
StartTasks(its, run, positions) ==
  IF positions = <<>> THEN [items |-> its, run |-> run]
  ELSE LET id == run.pending[Head(positions)] IN
       StartTasks(MarkAnalyzing(its, id),
                  [run EXCEPT !.tasks = Append(@, NewTask(id))],
                  Tail(positions))

\* analyzeItem without its catch: a failure rejects the awaited promise and
\* the loop of the run ends there
ResumeUnlessFailed(its, r, run) ==
  LET failed == \E p \in DOMAIN run.tasks : run.tasks[p].outcome = "fail"
      starts == IF failed THEN <<>>
                ELSE LoopStarts(run.pending, Len(run.tasks) + 1)
      st == StartTasks(its, run, starts)
  IN /\ items' = st.items
     /\ runs' = [runs EXCEPT ![r] = st.run]

\* a settled analyzeItem resolves its promise; the awaiting loop of its run
\* resumes in the same task of the event loop and starts what comes next
Resume(its, r, run) ==
  LET st == StartTasks(its, run, LoopStarts(run.pending, Len(run.tasks) + 1))
  IN /\ items' = st.items
     /\ runs' = [runs EXCEPT ![r] = st.run]

Task(r, p) == runs[r].tasks[p]
\* a request to the inference endpoint is in flight for the call
InFlight(r, p) == p \in DOMAIN runs[r].tasks /\ Task(r, p).phase = "requesting"

\* fileToBase64 resolves: analyzeInvoiceImage issues the endpoint request
EncodeResolve ==
  /\ mounted
  /\ \E r \in DOMAIN runs : \E p \in DOMAIN runs[r].tasks :
       /\ Task(r, p).phase = "encoding"
       /\ runs' = [runs EXCEPT ![r].tasks[p].phase = "requesting",
                               ![r].tasks[p].requests = @ + 1]
       /\ UNCHANGED <<items, activeItemId, nextId, uploaded, revokeCount,
                      mounted, exports, snapshot>>

\* fileToBase64 rejects (reader.onerror): the catch block marks ERROR
EncodeReject ==
  /\ mounted
  /\ \E r \in DOMAIN runs : \E p \in DOMAIN runs[r].tasks :
       /\ Task(r, p).phase = "encoding"
       /\ Resume(MarkError(items, Task(r, p).id), r,
                 [runs[r] EXCEPT !.tasks[p].phase = "settled",
                                 !.tasks[p].outcome = "fail"])
       /\ UNCHANGED <<activeItemId, nextId, uploaded, revokeCount, mounted,
                      exports, snapshot>>

\* the endpoint answers the request of an analyzeItem call
Respond ==
  /\ mounted
  /\ \E r \in DOMAIN runs : \E p \in DOMAIN runs[r].tasks : \E resp \in Responses :
       LET got == analyzeInvoiceImage(resp)
           id == Task(r, p).id
           ok == got.outcome = "ok"
           run == [runs[r] EXCEPT !.tasks[p].phase = "settled",
                                  !.tasks[p].outcome = IF ok THEN "ok" ELSE "fail"]
       IN /\ InFlight(r, p)
          /\ IF ok
             THEN Resume(MarkSuccess(items, id, got.data), r, run)
             ELSE Resume(MarkError(items, id), r, run)
          /\ UNCHANGED <<activeItemId, nextId, uploaded, revokeCount,
                         mounted, exports, snapshot>>

----------------------------------------------------------------------------
(* Orchestrator: the two triggers *)

\* const activeItem = items.find(item => item.id === activeItemId) || null
HasActiveItem == activeItemId \in Ids(items)
activeItem == Find(items, activeItemId)

\* App.tsx:259 and :296  the buttons that call handleAnalyzeActive
AnalyzeActiveVisible == HasActiveItem /\ IsPending(activeItem)

\* App.tsx:173  the analyze-all button
AnalyzeAllVisible == \E i \in DOMAIN items : IsPending(items[i])

\* the documents some flow has been started for, and the cap on them
Analysed ==
  UNION {{runs[r].pending[p] : p \in DOMAIN runs[r].pending} : r \in DOMAIN runs}
WithinBounds(pending) ==
  /\ Len(runs) < MaxRuns
  /\ Cardinality(Analysed \cup {pending[p] : p \in DOMAIN pending}) <= MaxAnalysed

StartRun(kind, pending, starts) ==
  LET st == StartTasks(items,
                       [kind |-> kind, pending |-> pending, tasks |-> <<>>],
                       starts)
  IN /\ items' = st.items
     /\ runs' = Append(runs, st.run)
     /\ UNCHANGED <<activeItemId, nextId, uploaded, revokeCount, mounted,
                    exports, snapshot>>

\* handleAnalyzeActive: if (activeItem) analyzeItem(activeItem), not awaited
handleAnalyzeActive ==
  IF HasActiveItem
  THEN StartRun("active", <<activeItem.id>>, <<1>>)
  ELSE UNCHANGED vars

AnalyzeActive ==
  /\ mounted
  /\ AnalyzeActiveVisible
  /\ WithinBounds(<<activeItemId>>)
  /\ handleAnalyzeActive

\* the filter that takes every document, whatever its status
PendingItemsAll(its) == [k \in DOMAIN its |-> its[k].id]

\* handleAnalyzeAll: items.filter(IDLE or ERROR), in list order
PendingItems(its) ==
  LET sel == SelectSeq(its, IsPending) IN [k \in DOMAIN sel |-> sel[k].id]

handleAnalyzeAll ==
  LET pendingItems == PendingItems(items) IN
  StartRun("all", pendingItems, LoopStarts(pendingItems, 1))

AnalyzeAll ==
  /\ mounted
  /\ AnalyzeAllVisible
  /\ WithinBounds(PendingItems(items))
  /\ handleAnalyzeAll

----------------------------------------------------------------------------
(* Editing the result of the active item *)

\* the edits a user can type into ResultDisplay: <<field, value>>
Edits == {<<"invoiceNumber", "X-9">>}

\* ResultDisplay.handleInputChange: { ...data, [field]: value }
WithField(data, field, value) ==
  [k \in DOMAIN data \cup {field} |-> IF k = field THEN value ELSE data[k]]

\* the edit that writes the new result into every item
DataChangedAll(its, active, newData) ==
  IF Truthy(active)
  THEN [k \in DOMAIN its |-> [its[k] EXCEPT !.result = Some(newData)]]
  ELSE its

\* App.tsx:98-100  if (activeItemId) setItems(prev => prev.map(i =>
\*                   i.id === activeItemId ? { ...i, result: newData } : i))
DataChanged(its, active, newData) ==
  IF Truthy(active)
  THEN [k \in DOMAIN its |->
          IF its[k].id = active
          THEN [its[k] EXCEPT !.result = Some(newData)]
          ELSE its[k]]
  ELSE its

\* handleDataChange: if (activeItemId) replace the result of the active item
handleDataChange(newData) ==
  /\ items' = DataChanged(items, activeItemId, newData)
  /\ UNCHANGED <<activeItemId, nextId, uploaded, runs, revokeCount, mounted,
                 exports, snapshot>>

\* App.tsx:286  ResultDisplay is rendered when activeItem?.result is set
DataChange ==
  /\ mounted
  /\ HasActiveItem
  /\ activeItem.result # Undefined
  /\ \E e \in Edits : \E data \in activeItem.result :
       handleDataChange(WithField(data, e[1], e[2]))

----------------------------------------------------------------------------
(* Exporter: handleExportCSV *)

\* In the exporter a text is the sequence of its symbols.  The characters the
\* code of the exporter, or a reader of CSV, tells apart are symbols of their
\* own; any other symbol stands for a run of characters that are none of them.
QUOTE == "\""
APOSTROPHE == "'"
COMMA == ","
NEWLINE == "\n"
SPACE == " "
\* the byte-order mark '\ufeff'
BOM == "BOM"

\* String.prototype.replace(/c/g, by)
RECURSIVE ReplaceAll(_, _, _)
ReplaceAll(text, c, by) ==
  IF text = <<>> THEN <<>>
  ELSE (IF Head(text) = c THEN by ELSE <<Head(text)>>)
         \o ReplaceAll(Tail(text), c, by)

\* String.prototype.trim(): white space goes from both ends
RECURSIVE TrimStart(_)
TrimStart(text) ==
  IF text # <<>> /\ Head(text) \in {SPACE, NEWLINE} THEN TrimStart(Tail(text))
  ELSE text
RECURSIVE TrimEnd(_)
TrimEnd(text) ==
  IF text # <<>> /\ text[Len(text)] \in {SPACE, NEWLINE}
  THEN TrimEnd(SubSeq(text, 1, Len(text) - 1))
  ELSE text
Trim(text) == TrimEnd(TrimStart(text))

\* Array.prototype.join(sep) of an array of texts
RECURSIVE Join(_, _)
Join(texts, sep) ==
  IF texts = <<>> THEN <<>>
  ELSE IF Len(texts) = 1 THEN texts[1]
  ELSE texts[1] \o sep \o Join(Tail(texts), sep)

\* `${n}` of a number (integers only): its digits are one run of characters
NumberText(n) == <<ToString(n)>>

\* data.field || '': undefined and '' both give ''
OrEmpty(data, field) == IF field \in DOMAIN data THEN data[field] ELSE <<>>

\* App.tsx:108  const headers = [...]
Headers ==
  << <<"File", SPACE, "Name">>, <<"Invoice", SPACE, "Date">>,
     <<"Invoice", SPACE, "Number">>, <<"PO", SPACE, "Number">>,
     <<"Quotation", SPACE, "Number">>, <<"Currency">>,
     <<"Items", SPACE, "Details">>, <<"Invoice", SPACE, "Total", SPACE, "Amount">> >>

\* App.tsx:125  data.items.filter(lineItem => lineItem.total !== 0)
ValidItems(data) == SelectSeq(data.items, LAMBDA lineItem : lineItem.total # 0)

\* the tail of the template literal of App.tsx:132
Amounts(lineItem) ==
  <<SPACE, "(Qty:", SPACE>> \o NumberText(lineItem.quantity)
    \o <<COMMA, SPACE, "Unit:", SPACE>> \o NumberText(lineItem.unitPrice)
    \o <<COMMA, SPACE, "Total:", SPACE>> \o NumberText(lineItem.total)
    \o <<")">>

\* App.tsx:131  lineItem.description.replace(/"/g, "'").trim()
SafeDesc(lineItem) == Trim(ReplaceAll(lineItem.description, QUOTE, <<APOSTROPHE>>))

\* App.tsx:129-133  validItems.map(...).join('\n')
ItemsSummary(data) ==
  LET validItems == ValidItems(data) IN
  Join([k \in DOMAIN validItems |->
          SafeDesc(validItems[k]) \o Amounts(validItems[k])],
       <<NEWLINE>>)

\* `"${text}"`
Quoted(text) == <<QUOTE>> \o text \o <<QUOTE>>

\* App.tsx:135-144  const row = [...]: only the file name has its quotes
\* doubled; the last cell is the number as it is, without quotes
Row(item) ==
  LET data == CHOOSE d \in item.result : TRUE IN
  << Quoted(ReplaceAll(item.file, QUOTE, <<QUOTE, QUOTE>>)),
     Quoted(OrEmpty(data, "invoiceDate")),
     Quoted(OrEmpty(data, "invoiceNumber")),
     Quoted(OrEmpty(data, "poNumber")),
     Quoted(OrEmpty(data, "quotationNumber")),
     Quoted(OrEmpty(data, "currency")),
     Quoted(ItemsSummary(data)),
     NumberText(data.totalAmount) >>

\* App.tsx:104  items.filter(i => i.status === SUCCESS && i.result)
SuccessItems(its) ==
  SelectSeq(its, LAMBDA i : i.status = SUCCESS /\ i.result # Undefined)

\* App.tsx:119-147  csvContent: the header line, then one line per item
RECURSIVE CsvRows(_)
CsvRows(successItems) ==
  IF successItems = <<>> THEN <<>>
  ELSE Join(Row(Head(successItems)), <<COMMA>>) \o <<NEWLINE>>
         \o CsvRows(Tail(successItems))
CsvContent(successItems) ==
  Join(Headers, <<COMMA>>) \o <<NEWLINE>> \o CsvRows(successItems)

\* what a call of handleExportCSV makes the browser download: nothing when
\* no item qualifies (early return), else the blob '\ufeff' + csvContent
ExportFile(its) ==
  LET successItems == SuccessItems(its) IN
  IF Len(successItems) = 0 THEN Undefined
  ELSE Some(<<BOM>> \o CsvContent(successItems))

handleExportCSV ==
  /\ exports' = Append(exports, ExportFile(items))
  /\ UNCHANGED <<items, activeItemId, nextId, uploaded, runs, revokeCount,
                 mounted, snapshot>>

\* App.tsx:182  the export button is shown when some item is SUCCESS
ExportVisible == \E i \in DOMAIN items : items[i].status = SUCCESS

ExportCSV ==
  /\ mounted
  /\ ExportVisible
  /\ Len(exports) < MaxExports
  /\ handleExportCSV

----------------------------------------------------------------------------
Next ==
  \/ FilesSelect
  \/ SelectItem
  \/ RemoveItem
  \/ AnalyzeActive
  \/ AnalyzeAll
  \/ EncodeResolve
  \/ EncodeReject
  \/ Respond
  \/ DataChange
  \/ Unmount

Spec == Init /\ [][Next]_vars

----------------------------------------------------------------------------
(* The session with an encoder and an endpoint that always answer: as long
   as some analyzeItem call waits for its FileReader, one of the waiting
   calls gets its answer (load or error) at some time, and as long as some
   request is in flight, one of the requests in flight is answered *)

FairSpec ==
  /\ Spec
  /\ WF_vars(EncodeResolve \/ EncodeReject)
  /\ WF_vars(Respond)

----------------------------------------------------------------------------
(* The review of extracted documents: a session that starts from a store of
   documents, whose texts are sequences of symbols; the user edits line
   items, selects, removes and exports *)

LineItemFree ==
  [description |-> <<"Manual">>, quantity |-> 1, unitPrice |-> 0, total |-> 0]
LineItemQuoted ==
  [description |-> <<SPACE, "Bolt", SPACE, QUOTE, "M8", QUOTE, SPACE>>,
   quantity |-> 3, unitPrice |-> 7, total |-> 21]
LineItemPlain ==
  [description |-> <<"Widget">>, quantity |-> 2, unitPrice |-> 500, total |-> 1000]

\* the example of the specification: one line item, every field present
ResultWidget ==
  [invoiceDate |-> <<"2024-01-31">>, invoiceNumber |-> <<"INV-1">>,
   poNumber |-> <<"PO-7">>, quotationNumber |-> <<>>, totalAmount |-> 1000,
   currency |-> <<"USD">>, items |-> <<LineItemPlain>>]
\* optional fields left out; a line item of no cost between two others, and
\* a description with white space around it and quotes in it
ResultMixed ==
  [invoiceDate |-> <<"2024-02-01">>, invoiceNumber |-> <<"INV-2">>,
   totalAmount |-> 1021,
   items |-> <<LineItemPlain, LineItemFree, LineItemQuoted>>]
\* every line item has total zero
ResultAllFree ==
  [invoiceDate |-> <<"2024-02-02">>, invoiceNumber |-> <<"INV-3">>,
   poNumber |-> <<>>, quotationNumber |-> <<>>, totalAmount |-> 0,
   currency |-> <<"EUR">>, items |-> <<LineItemFree>>]
\* a quote in the invoice number and in the PO number, a comma in the date
ResultQuotedNumber ==
  [invoiceDate |-> <<"Jan", SPACE, "31", COMMA, SPACE, "2024">>,
   invoiceNumber |-> <<"INV", QUOTE, "4">>,
   poNumber |-> <<QUOTE, "PO", QUOTE>>, quotationNumber |-> <<"Q-1">>,
   totalAmount |-> 21, currency |-> <<"USD">>, items |-> <<LineItemQuoted>>]
ExportResults == {ResultWidget, ResultMixed, ResultAllFree, ResultQuotedNumber}

\* file names: a plain one and one with quotes in it
ExportNames == {<<"a.pdf">>, <<"scan", SPACE, QUOTE, "b", QUOTE, ".png">>}

\* status, result and error of a document of the store.  SUCCESS without a
\* result is what a response text of "null" leaves (JSON.parse accepts it);
\* ERROR and ANALYZING with a result come from a second analysis of a document
ExportDocStates ==
  {[status |-> IDLE, result |-> Undefined, error |-> Undefined],
   [status |-> ANALYZING, result |-> Undefined, error |-> Undefined],
   [status |-> ANALYZING, result |-> Some(ResultWidget), error |-> Undefined],
   [status |-> ERROR, result |-> Undefined, error |-> Some(ErrorMessage)],
   [status |-> ERROR, result |-> Some(ResultWidget), error |-> Some(ErrorMessage)],
   [status |-> SUCCESS, result |-> Undefined, error |-> Undefined]}
    \cup {[status |-> SUCCESS, result |-> Some(r), error |-> Undefined] :
            r \in ExportResults}

ExportInit ==
  /\ \E n \in 0..MaxDocs :
       \E doc \in [1..n -> ExportNames \X ExportDocStates] :
         /\ items = [k \in 1..n |->
                       [id |-> RandomUUID(k), file |-> doc[k][1],
                        previewUrl |-> CreateObjectURL(k),
                        status |-> doc[k][2].status,
                        result |-> doc[k][2].result,
                        error |-> doc[k][2].error]]
         /\ activeItemId = (IF n > 0 THEN RandomUUID(1) ELSE Null)
         /\ nextId = n
         /\ revokeCount = [k \in 1..n |-> 0]
  /\ uploaded = <<>>
  /\ runs = <<>>
  /\ mounted = TRUE
  /\ exports = <<>>
  /\ snapshot = items

\* the edits of a line item a user can type: <<field, value>>
ItemEdits == {<<"total", 0>>}

\* newItems[index][field] = value: the assignment is made to the line-item
\* object itself, which every collection that holds the result of this
\* document shares
WithItemField(its, id, index, field, value) ==
  [k \in DOMAIN its |->
     IF its[k].id = id /\ its[k].result # Undefined
     THEN [its[k] EXCEPT !.result =
             {[d EXCEPT !.items[index][field] = value] : d \in its[k].result}]
     ELSE its[k]]

\* ResultDisplay.handleItemChange(index, field, value) on the result of the
\* active item: [...data.items] copies the array but not the line items, so
\* the assignment shows in the collections published before; then
\* onChange({ ...data, items: newItems }) replaces the result in a new one
handleItemChange(index, field, value) ==
  LET data == CHOOSE d \in activeItem.result : TRUE
      newData == [data EXCEPT !.items[index][field] = value]
  IN /\ snapshot' = WithItemField(snapshot, activeItemId, index, field, value)
     /\ items' = DataChanged(items, activeItemId, newData)
     /\ UNCHANGED <<activeItemId, nextId, uploaded, runs, revokeCount, mounted,
                    exports>>

\* the inputs of a row of the line-item table of ResultDisplay
ItemChange ==
  /\ mounted
  /\ HasActiveItem
  /\ activeItem.result # Undefined
  /\ \E data \in activeItem.result : \E index \in DOMAIN data.items :
       \E e \in ItemEdits : handleItemChange(index, e[1], e[2])

ExportNext ==
  \/ ExportCSV
  \/ ItemChange
  \/ SelectItem
  \/ RemoveItem

ExportSpec == ExportInit /\ [][ExportNext]_vars

----------------------------------------------------------------------------
(* Vocabulary of the properties *)

StatusOf(its, id) == Find(its, id).status
BatchRuns == {r \in DOMAIN runs : runs[r].kind = "all"}

\* the analyzeItem calls that have a request at the endpoint
InFlightTasks ==
  {t \in (DOMAIN runs) \X (1..MaxUploads) : InFlight(t[1], t[2])}

\* the analyzeItem call p of run r settles in this step
Settles(r, p) ==
  /\ p \in DOMAIN runs[r].tasks
  /\ runs[r].tasks[p].phase # "settled"
  /\ runs'[r].tasks[p].phase = "settled"

LifecycleSteps ==
  {<<IDLE, ANALYZING>>, <<ANALYZING, SUCCESS>>, <<ANALYZING, ERROR>>,
   <<ERROR, ANALYZING>>}

----------------------------------------------------------------------------
(* C1: every status change of a document that stays in the store is one of
   IDLE->ANALYZING, ANALYZING->SUCCESS, ANALYZING->ERROR, ERROR->ANALYZING;
   in particular a SUCCESS document never changes status again. *)
C1_StatusLifecycle ==
  [][\A id \in Ids(items) \cap Ids(items') :
       StatusOf(items, id) # StatusOf(items', id)
         => <<StatusOf(items, id), StatusOf(items', id)>> \in LifecycleSteps]_vars

(* C2: in every reachable state at most one extraction request to the
   inference endpoint is in flight. *)
C2_OneRequestInFlight == Cardinality(InFlightTasks) <= 1

(* C3: within one run of handleAnalyzeAll the request for document i+1 is
   issued only after the SUCCESS or ERROR update of document i has been
   applied, and two requests of the run are never in flight together. *)
C3_BatchSequential ==
  \A r \in BatchRuns :
    /\ \A p \in DOMAIN runs[r].tasks :
         (p > 1 /\ runs[r].tasks[p].requests > 0)
           => runs[r].tasks[p - 1].phase = "settled"
    /\ Cardinality({t \in InFlightTasks : t[1] = r}) <= 1

\* a batch run whose second request is in flight after its first has settled
C3_Witness ==
  \E r \in BatchRuns :
    /\ Len(runs[r].tasks) = 2
    /\ runs[r].tasks[1].phase = "settled"
    /\ runs[r].tasks[2].phase = "requesting"

----------------------------------------------------------------------------
IndexOf(its, id) == CHOOSE i \in DOMAIN its : its[i].id = id

\* this step is a click on analyze-all: a new batch run is recorded
BatchTriggered ==
  Len(runs') = Len(runs) + 1 /\ runs'[Len(runs')].kind = "all"

\* the list of the new run holds the documents that are IDLE or ERROR now,
\* each once, in the order of the list of documents
PicksPendingInOrder ==
  LET pending == runs'[Len(runs')].pending IN
  /\ {pending[p] : p \in DOMAIN pending}
       = {items[i].id : i \in {j \in DOMAIN items : items[j].status \in {IDLE, ERROR}}}
  /\ \A a, b \in DOMAIN pending :
       a < b => IndexOf(items, pending[a]) < IndexOf(items, pending[b])

\* the calls of a run follow its list position by position; a call has one
\* request at most, and exactly one once its encoding got through
FollowsPending(run) ==
  /\ Len(run.tasks) <= Len(run.pending)
  /\ \A p \in DOMAIN run.tasks :
       /\ run.tasks[p].id = run.pending[p]
       /\ run.tasks[p].requests <= 1
       /\ (run.tasks[p].phase = "requesting" \/ run.tasks[p].outcome = "ok")
            => run.tasks[p].requests = 1
       /\ run.tasks[p].phase = "encoding" => run.tasks[p].requests = 0
  \* the run stops only at the end of its list
  /\ (\A p \in DOMAIN run.tasks : run.tasks[p].phase = "settled")
       => Len(run.tasks) = Len(run.pending)

(* C4 (as stated): a batch run issues exactly one request for each document
   that was IDLE or ERROR when analyze-all was triggered, in list order, and
   none for a document that was ANALYZING or SUCCESS. *)
C4_ExactlyOneRequest ==
  \A r \in BatchRuns :
    Finished(runs[r])
      => \A p \in DOMAIN runs[r].pending :
           runs[r].tasks[p].id = runs[r].pending[p] /\ runs[r].tasks[p].requests = 1

(* C4 (amended): a batch run starts the single-document flow exactly once for
   each document that was IDLE or ERROR when analyze-all was triggered, in
   list order, and for no other document; each of these flows issues exactly
   one request, or none when the encoding of its file fails. *)
C4_BatchSelection ==
  [][/\ BatchTriggered => PicksPendingInOrder
     /\ \A r \in DOMAIN runs' : runs'[r].kind = "all" => FollowsPending(runs'[r])]_vars

\* a finished batch run over two documents: the encoding of the first failed
\* (no request), the second was requested and extracted
C4_Witness ==
  \E r \in BatchRuns :
    /\ Finished(runs[r])
    /\ Len(runs[r].pending) = 2
    /\ runs[r].tasks[1].requests = 0
    /\ runs[r].tasks[2].requests = 1
    /\ runs[r].tasks[2].outcome = "ok"

(* C5: in a batch run the failure of one document never stops the run: the
   next pending document is started in its turn, and every document of the
   run still in the store gets SUCCESS or ERROR by its own outcome. *)
C5_FailureDoesNotStopBatch ==
  [][\A r \in BatchRuns : \A p \in DOMAIN runs[r].tasks :
       Settles(r, p) =>
         LET id == runs[r].tasks[p].id
             outcome == runs'[r].tasks[p].outcome
         IN /\ outcome \in {"ok", "fail"}
            /\ id \in Ids(items') =>
                 StatusOf(items', id) = (IF outcome = "ok" THEN SUCCESS ELSE ERROR)
            /\ p < Len(runs[r].pending) =>
                 /\ Len(runs'[r].tasks) = p + 1
                 /\ runs'[r].tasks[p + 1].id = runs[r].pending[p + 1]
                 /\ runs'[r].tasks[p + 1].phase = "encoding"]_vars

\* a finished batch run whose first document failed and whose second document
\* was extracted and is shown as SUCCESS, the first as ERROR
C5_Witness ==
  \E r \in BatchRuns :
    /\ Finished(runs[r])
    /\ Len(runs[r].pending) = 2
    /\ runs[r].tasks[1].outcome = "fail"
    /\ runs[r].tasks[2].outcome = "ok"
    /\ {runs[r].pending[1], runs[r].pending[2]} \subseteq Ids(items)
    /\ StatusOf(items, runs[r].pending[1]) = ERROR
    /\ StatusOf(items, runs[r].pending[2]) = SUCCESS

(* C6: when an extraction fails, the status of the document becomes ERROR
   with a non-empty error message and its result keeps the value it had
   before: absent stays absent, an earlier result stays the same. *)
C6_FailureKeepsResult ==
  [][\A r \in DOMAIN runs : \A p \in DOMAIN runs[r].tasks :
       (Settles(r, p) /\ runs'[r].tasks[p].outcome = "fail"
          /\ runs[r].tasks[p].id \in Ids(items))
         => LET id == runs[r].tasks[p].id IN
            /\ id \in Ids(items')
            /\ StatusOf(items', id) = ERROR
            /\ Find(items', id).error # Undefined
            /\ \A m \in Find(items', id).error : m # ""
            /\ Find(items', id).result = Find(items, id).result]_vars

\* a document in ERROR that still carries the result of an earlier extraction
C6_Witness ==
  \E i \in DOMAIN items :
    /\ items[i].status = ERROR
    /\ items[i].error = Some(ErrorMessage)
    /\ items[i].result # Undefined

(* C7: every stored result has the required fields, and holds a value for
   poNumber and quotationNumber: the empty string when the response of the
   endpoint omitted the field. *)
C7_OptionalFieldsDefaulted ==
  \A i \in DOMAIN items : \A data \in items[i].result :
    /\ RequiredFields \subseteq DOMAIN data
    /\ DefaultedFields \subseteq DOMAIN data

----------------------------------------------------------------------------
\* this step is an upload: ids were drawn
Uploads == nextId' > nextId

\* the k new items follow the old ones, one per file in file order, each IDLE
\* without result and error and with a non-empty id; the old items are as
\* they were
AppendsNewItems ==
  LET k == nextId' - nextId
      old == Len(items)
  IN /\ Len(uploaded') = k
     /\ Len(items') = old + k
     /\ \A j \in 1..old : items'[j] = items[j]
     /\ \A j \in 1..k :
          /\ items'[old + j].file = uploaded'[j]
          /\ items'[old + j].status = IDLE
          /\ items'[old + j].result = Undefined
          /\ items'[old + j].error = Undefined
          /\ Truthy(items'[old + j].id)

DistinctIds(its) ==
  \A i, j \in DOMAIN its : i # j => its[i].id # its[j].id

(* C8: every upload of k files appends exactly k new items after the existing
   ones, in file order, each IDLE with no result, no error and a non-empty
   id; the ids of the items in the store are pairwise distinct in every
   state, and an upload changes no field of an existing item. *)
C8_UploadAppends ==
  [][(Uploads => AppendsNewItems) /\ DistinctIds(items')]_vars

\* two files uploaded after a document that has already been extracted
C8_Witness ==
  /\ Len(items) = 3
  /\ Len(uploaded) = 2
  /\ items[1].status = SUCCESS
  /\ items[2].status = IDLE /\ items[2].file = uploaded[1]
  /\ items[3].status = IDLE /\ items[3].file = uploaded[2]
  /\ uploaded[1] # uploaded[2]

(* C9: the preview reference of every item ever created is released exactly
   once, when the user removes the item: it has no release while the item is
   in the store and exactly one after the item has been removed. *)
C9_PreviewReleasedOnce ==
  /\ DOMAIN revokeCount = 1..nextId
  /\ \A n \in 1..nextId :
       revokeCount[n] = (IF RandomUUID(n) \in Ids(items) THEN 0 ELSE 1)
  /\ \A i \in DOMAIN items :
       \E n \in 1..nextId :
         items[i].id = RandomUUID(n) /\ items[i].previewUrl = CreateObjectURL(n)

\* one item was removed and released while another is still in the store
C9_Witness ==
  /\ nextId = 2
  /\ Ids(items) = {RandomUUID(2)}
  /\ revokeCount = <<1, 0>>

\* this step is a removal: the list gets shorter
Removes == Len(items') < Len(items)

\* exactly the item of one id goes, the others stay as they were and in their
\* order; the selection moves to the first item left (or to none) when the
\* item removed was selected, and stays otherwise
RemovesOneItem ==
  \E i \in DOMAIN items :
    /\ Len(items') = Len(items) - 1
    /\ \A j \in DOMAIN items' :
         items'[j] = (IF j < i THEN items[j] ELSE items[j + 1])
    /\ activeItemId' =
         (IF activeItemId # items[i].id THEN activeItemId
          ELSE IF Len(items') > 0 THEN items'[1].id ELSE Null)

(* C10: removing an item deletes exactly the item with that id and keeps the
   others in their order; if it was the active selection, the selection
   becomes the first remaining item, or none when the list is empty; if not,
   the selection is unchanged. *)
C10_RemoveKeepsOthers ==
  [][Removes => RemovesOneItem]_vars

\* the middle one of three items was removed while it was selected: the other
\* two keep their order and the first of them is selected
C10_Witness ==
  /\ nextId = 3
  /\ Len(items) = 2
  /\ items[1].id = RandomUUID(1)
  /\ items[2].id = RandomUUID(3)
  /\ revokeCount = <<0, 1, 0>>
  /\ activeItemId = RandomUUID(1)

----------------------------------------------------------------------------
(* C11: after an upload of at least one file the active selection is the
   first item the upload added, whatever was selected before; an upload of
   zero files (handleFilesSelect called with an empty list) leaves the
   selection as it is. *)
C11_UploadSelectsFirstNew ==
  [][/\ Uploads => activeItemId' = items'[Len(items) + 1].id
     /\ SelectAfterUpload(activeItemId, NewItems(<<>>, nextId)) = activeItemId
     /\ SelectAfterUpload(activeItemId', NewItems(<<>>, nextId')) = activeItemId']_vars

\* two files were uploaded while an extracted document was in the store (and
\* selected, being the only one): the first of the two is selected now
C11_Witness ==
  /\ nextId = 3
  /\ Len(items) = 3
  /\ Len(uploaded) = 2
  /\ items[1].status = SUCCESS
  /\ activeItemId = items[2].id
  /\ activeItemId = RandomUUID(2)

----------------------------------------------------------------------------
\* the response to the request of call p of run r arrives in this step while
\* the document of the call is no longer in the store
RespondsToRemoved(r, p) ==
  /\ InFlight(r, p)
  /\ Settles(r, p)
  /\ runs[r].tasks[p].id \notin Ids(items)

\* the document a batch run starts in the step in which its call p settles
NextStarted(r, p) ==
  IF p < Len(runs[r].pending) THEN {runs[r].pending[p + 1]} ELSE {}

(* C12: removing a document does not cancel its request: the request stays in
   flight.  When the response arrives (success or failure) for a document no
   longer in the store, the selection is unchanged, the list keeps its length
   and order, the removed document is not in it, and no document is altered
   by the response (the only item that may change in that step is the one
   the batch loop marks ANALYZING as it goes on to its next document). *)
C12_ResponseAfterRemoveIsNoOp ==
  [][/\ Removes => runs' = runs
     /\ \A r \in DOMAIN runs : \A p \in DOMAIN runs[r].tasks :
          RespondsToRemoved(r, p) =>
            /\ activeItemId' = activeItemId
            /\ Len(items') = Len(items)
            /\ runs[r].tasks[p].id \notin Ids(items')
            /\ \A k \in DOMAIN items :
                 items[k].id \notin NextStarted(r, p) => items'[k] = items[k]
            /\ NextStarted(r, p) = {} => items' = items]_vars

\* the request of a removed document is still in flight while another
\* document, already extracted, is in the store and selected
C12_Witness ==
  \E r \in DOMAIN runs : \E p \in DOMAIN runs[r].tasks :
    /\ InFlight(r, p)
    /\ runs[r].tasks[p].id \notin Ids(items)
    /\ Len(items) = 1
    /\ items[1].status = SUCCESS
    /\ activeItemId = items[1].id

----------------------------------------------------------------------------
(* Reading an exported file back, as a spreadsheet does (RFC 4180): cells are
   separated by commas and rows by line breaks; a cell in quotes runs to its
   closing quote, and two quotes in it stand for one.  A character is inside
   quotes exactly when the number of quotes before it is odd, so the reader
   needs no scan from left to right *)

\* 1 for the positions of the text that are inside quotes, 0 for the others
Parity(text) ==
  [i \in 1..Len(text) |-> Cardinality({j \in 1..(i - 1) : text[j] = QUOTE}) % 2]

\* the positions from..to where the separator c stands outside quotes
Seps(text, par, from, to, c) ==
  SelectSeq([i \in 1..(to + 1 - from) |-> from + i - 1],
            LAMBDA i : text[i] = c /\ par[i] = 0)

\* the stretches <<first, last>> that the separators cut from..to into
Spans(from, to, seps) ==
  [k \in 1..(Len(seps) + 1) |->
     <<IF k = 1 THEN from ELSE seps[k - 1] + 1,
       IF k <= Len(seps) THEN seps[k] - 1 ELSE to>>]

\* the value of a cell: its characters without the quotes around stretches,
\* a quote that reopens right after a closing quote being a quote of the value
CellText(text, par, span) ==
  LET kept == SelectSeq([i \in 1..(span[2] + 1 - span[1]) |-> span[1] + i - 1],
                        LAMBDA i : \/ text[i] # QUOTE
                                   \/ /\ par[i] = 0
                                      /\ i > span[1]
                                      /\ text[i - 1] = QUOTE)
  IN [k \in DOMAIN kept |-> text[kept[k]]]

\* the rows of a file, each the sequence of its cells; the mark is skipped,
\* and nothing after the last line break is no row
ReadCSV(file) ==
  LET text == IF file # <<>> /\ Head(file) = BOM THEN Tail(file) ELSE file
      n == Len(text)
      par == Parity(text)
      rowSpans == SelectSeq(Spans(1, n, Seps(text, par, 1, n, NEWLINE)),
                            LAMBDA s : s[1] <= n)
  IN [r \in DOMAIN rowSpans |->
        LET cellSpans == Spans(rowSpans[r][1], rowSpans[r][2],
                               Seps(text, par, rowSpans[r][1], rowSpans[r][2], COMMA))
        IN [k \in DOMAIN cellSpans |-> CellText(text, par, cellSpans[k])]]

\* the lines of a cell
Lines(text) ==
  LET n == Len(text)
      spans == Spans(1, n, SelectSeq([i \in 1..n |-> i], LAMBDA i : text[i] = NEWLINE))
  IN [k \in DOMAIN spans |-> SubSeq(text, spans[k][1], spans[k][2])]

\* this step is a click on the export button
Exports == Len(exports') = Len(exports) + 1
\* the files the click of this step produced
Exported == exports'[Len(exports')]

\* the documents that are SUCCESS with a result, in list order
Qualifying ==
  SelectSeq(items, LAMBDA i : i.status = SUCCESS /\ i.result # Undefined)
ResultOf(item) == CHOOSE d \in item.result : TRUE

\* the file has the header row, then one row per qualifying document and no
\* other, in list order: the row of a document starts with its file name
OneRowPerQualifying(file) ==
  LET rows == ReadCSV(file) IN
  /\ Len(rows) = 1 + Len(Qualifying)
  /\ rows[1] = Headers
  /\ \A j \in DOMAIN Qualifying : rows[j + 1][1] = Qualifying[j].file

(* C13: a click on export produces a file if and only if some document is
   SUCCESS with a result; the file then has one header row followed by
   exactly one data row per such document, in list order, and no other row;
   with no such document the click produces nothing. *)
C13_OneRowPerSuccess ==
  [][Exports =>
       /\ (Exported # {}) <=> (Len(Qualifying) > 0)
       /\ \A file \in Exported : OneRowPerQualifying(file)]_vars

----------------------------------------------------------------------------
EndsWith(text, tail) ==
  /\ Len(text) >= Len(tail)
  /\ SubSeq(text, Len(text) + 1 - Len(tail), Len(text)) = tail
StartsWith(text, head) ==
  /\ Len(text) >= Len(head)
  /\ SubSeq(text, 1, Len(head)) = head
Count(text, c) == Len(SelectSeq(text, LAMBDA x : x = c))

\* the line items of a result that cost something, in their order
Costing(data) == SelectSeq(data.items, LAMBDA li : li.total # 0)

\* the items cell has one line for each costing line item, in order, which
\* names its quantity, unit price and total, and nothing else
OneLinePerCostingItem(cell, data) ==
  LET costing == Costing(data)
      lines == Lines(cell)
  IN IF costing = <<>> THEN cell = <<>>
     ELSE /\ Len(lines) = Len(costing)
          /\ \A k \in DOMAIN costing :
               EndsWith(lines[k],
                        <<SPACE, "(Qty:", SPACE, ToString(costing[k].quantity),
                          COMMA, SPACE, "Unit:", SPACE, ToString(costing[k].unitPrice),
                          COMMA, SPACE, "Total:", SPACE, ToString(costing[k].total),
                          ")">>)

(* C14: in every exported row the items cell (the seventh) has one line per
   line item of the document whose total is not zero, in the order of the
   items, and nothing for an item whose total is zero; a document whose items
   all have total zero still has its row, with an empty items cell. *)
C14_ItemsCellSkipsZeroTotals ==
  [][Exports =>
       \A file \in Exported :
         LET rows == ReadCSV(file) IN
         \A j \in DOMAIN Qualifying :
           /\ Len(rows) > j
           /\ Len(rows[j + 1]) = Len(Headers)
           /\ OneLinePerCostingItem(rows[j + 1][7], ResultOf(Qualifying[j]))]_vars

----------------------------------------------------------------------------
\* the text fields of a result in the order of their columns (2 to 6)
TextColumns ==
  <<"invoiceDate", "invoiceNumber", "poNumber", "quotationNumber", "currency">>
ValueOf(data, field) == IF field \in DOMAIN data THEN data[field] ELSE <<>>

\* the quotes in the descriptions of the costing line items of a result
RECURSIVE QuotesInDescriptions(_)
QuotesInDescriptions(lineItems) ==
  IF lineItems = <<>> THEN 0
  ELSE Count(Head(lineItems).description, QUOTE)
         + QuotesInDescriptions(Tail(lineItems))

\* the row of the document reads back as its file name, its five text fields
\* with the quotes they have, and an items cell in which every quote of a
\* description has become an apostrophe
ReadsBack(row, item) ==
  /\ Len(row) = Len(Headers)
  /\ row[1] = item.file
  /\ \A c \in DOMAIN TextColumns :
       row[c + 1] = ValueOf(ResultOf(item), TextColumns[c])
  /\ Count(row[7], QUOTE) = 0
  /\ Count(row[7], APOSTROPHE) = QuotesInDescriptions(Costing(ResultOf(item)))

(* C15: in every exported row a quote inside a line-item description shows
   as an apostrophe in the items cell, and a quote inside the file name, the
   invoice date, the invoice number, the PO number, the quotation number or
   the currency is written doubled, so that no value ends its cell early:
   every cell reads back as the value it was written from. *)
C15_QuotesEscaped ==
  [][Exports =>
       \A file \in Exported :
         LET rows == ReadCSV(file) IN
         \A j \in DOMAIN Qualifying :
           Len(rows) > j /\ ReadsBack(rows[j + 1], Qualifying[j])]_vars

----------------------------------------------------------------------------
\* this step is a click on an analysis button: a new run is recorded
Triggers == Len(runs') = Len(runs) + 1

\* the call p of run r issues its request to the endpoint in this step
IssuesRequest(r, p) ==
  /\ p \in DOMAIN runs[r].tasks
  /\ runs[r].tasks[p].phase = "encoding"
  /\ runs'[r].tasks[p].phase = "requesting"

\* a trigger makes one call per document at most, a call one request at most
SingleAttempt(run) ==
  /\ \A p \in DOMAIN run.tasks : run.tasks[p].requests <= 1
  /\ \A p, q \in DOMAIN run.tasks : p # q => run.tasks[p].id # run.tasks[q].id

(* C16: nothing is retried without the user: a trigger makes a single request
   attempt per document; a document in ERROR leaves ERROR only in the step
   of a user trigger, which makes it ANALYZING, and no request is issued for
   it while it is in ERROR; when a status becomes ANALYZING the stored error
   message is cleared in the same step. *)
C16_NoAutomaticRetry ==
  [][/\ \A r \in DOMAIN runs' : SingleAttempt(runs'[r])
     /\ \A id \in Ids(items) :
          StatusOf(items, id) = ERROR =>
            /\ (id \in Ids(items') /\ StatusOf(items', id) # ERROR)
                 => (Triggers /\ StatusOf(items', id) = ANALYZING)
            /\ \A r \in DOMAIN runs : \A p \in DOMAIN runs[r].tasks :
                 IssuesRequest(r, p) => runs[r].tasks[p].id # id
     /\ \A id \in Ids(items) \cap Ids(items') :
          (StatusOf(items, id) # ANALYZING /\ StatusOf(items', id) = ANALYZING)
            => Find(items', id).error = Undefined]_vars

----------------------------------------------------------------------------
\* the document with the n-th id is in the store and ANALYZING
IsAnalyzing(n) ==
  RandomUUID(n) \in Ids(items) /\ StatusOf(items, RandomUUID(n)) = ANALYZING
\* it is SUCCESS or ERROR, or has been removed
IsSettledOrGone(n) ==
  \/ RandomUUID(n) \notin Ids(items)
  \/ StatusOf(items, RandomUUID(n)) \in {SUCCESS, ERROR}

\* the r-th run is a batch run, and it has finished
IsBatchRun(r) == r \in DOMAIN runs /\ runs[r].kind = "all"
BatchFinished(r) == IF r \in DOMAIN runs THEN Finished(runs[r]) ELSE FALSE

(* C17: when the encoder and the endpoint always answer, every document that
   is ANALYZING is SUCCESS or ERROR, or removed, at some later time, and
   every batch run finishes at some later time (unless the application is
   closed first, which ends the session). *)
C17_AnalysisTerminates ==
  /\ \A n \in 1..MaxUploads :
       IsAnalyzing(n) ~> (IsSettledOrGone(n) \/ ~mounted)
  /\ \A r \in 1..MaxRuns :
       IsBatchRun(r) ~> (BatchFinished(r) \/ ~mounted)

\* a batch run over two documents has finished and no document of the store
\* is left ANALYZING: one ended as SUCCESS and one as ERROR
C17_Witness ==
  /\ \E r \in BatchRuns : Finished(runs[r]) /\ Len(runs[r].pending) = 2
  /\ \A r \in DOMAIN runs : Finished(runs[r])
  /\ Len(items) = 2
  /\ {items[1].status, items[2].status} = {SUCCESS, ERROR}
  /\ mounted

----------------------------------------------------------------------------
\* the documents that the analyzeItem calls of this step update: a call that
\* starts marks its document ANALYZING, a call that settles marks SUCCESS or
\* ERROR
Targets ==
  UNION {{runs'[r].tasks[p].id :
            p \in {q \in DOMAIN runs'[r].tasks :
                     \/ r \notin DOMAIN runs
                     \/ q \notin DOMAIN runs[r].tasks
                     \/ runs[r].tasks[q].phase # runs'[r].tasks[q].phase}} :
         r \in DOMAIN runs'}

\* this step is a step of analyzeItem calls / an edit of a result
AnalysisStep == runs' # runs
EditStep ==
  /\ runs' = runs /\ nextId' = nextId /\ exports' = exports
  /\ Len(items') = Len(items) /\ items' # items

\* the list keeps its length and its order, and the selection stays
SameListAndSelection ==
  /\ Len(items') = Len(items)
  /\ \A k \in DOMAIN items :
       /\ items'[k].id = items[k].id
       /\ items'[k].file = items[k].file
       /\ items'[k].previewUrl = items[k].previewUrl
  /\ activeItemId' = activeItemId

(* C18: a mark ANALYZING, SUCCESS or ERROR changes only the item with the id
   of its call, and an edit only the result of the active item, never its
   status: every other item keeps status, result and error, the list keeps
   its length and order, and the selection is unchanged; an edit made while
   no item is active changes nothing. *)
C18_UpdatesTouchOnlyTarget ==
  [][/\ AnalysisStep =>
          /\ SameListAndSelection
          /\ \A k \in DOMAIN items :
               items[k].id \notin Targets => items'[k] = items[k]
     /\ EditStep =>
          /\ SameListAndSelection
          /\ \A k \in DOMAIN items :
               /\ items[k].id # activeItemId => items'[k] = items[k]
               /\ items'[k].status = items[k].status
               /\ items'[k].error = items[k].error
     /\ \A e \in Edits : \A k \in DOMAIN items' : \A data \in items'[k].result :
          DataChanged(items', Null, WithField(data, e[1], e[2])) = items']_vars

\* the invoice number of the selected document was edited; the other
\* document, extracted too, has the number its response gave it
C18_Witness ==
  /\ Len(items) = 2
  /\ activeItemId = items[1].id
  /\ items[1].status = SUCCESS
  /\ items[2].status = SUCCESS
  /\ \E d1 \in items[1].result : \E d2 \in items[2].result :
       \E e \in Edits : d1[e[1]] = e[2] /\ d2[e[1]] # e[2]

----------------------------------------------------------------------------
(* C19: every operation on the store builds a new collection and leaves the
   collection published before, and the records in it, as they were: what a
   holder of an earlier collection reads never changes. *)
C19_SnapshotsImmutable ==
  [][snapshot' = snapshot]_vars

----------------------------------------------------------------------------
(* C20: in every reachable state the active selection is none or the id of
   an item of the store, and it is none exactly when the store is empty. *)
C20_SelectionInStore ==
  /\ activeItemId = Null \/ activeItemId \in Ids(items)
  /\ (activeItemId = Null) <=> (items = <<>>)

\* two of three documents have been removed; the one left, the last one
\* uploaded, has been extracted and is the selection
C20_Witness ==
  /\ nextId = 3
  /\ Len(items) = 1
  /\ items[1].id = RandomUUID(3)
  /\ items[1].status = SUCCESS
  /\ activeItemId = RandomUUID(3)

----------------------------------------------------------------------------
\* status, result and error of an item fit together
Consistent(item) ==
  /\ item.status = SUCCESS => (item.result # Undefined /\ item.error = Undefined)
  /\ item.status = ANALYZING => item.error = Undefined
  /\ item.status = ERROR =>
       (item.error # Undefined /\ \A m \in item.error : m # "")
  /\ item.status = IDLE => (item.result = Undefined /\ item.error = Undefined)

(* C21: in every reachable state an item that is SUCCESS has a result and no
   error message, an item that is ANALYZING has no error message, an item
   that is ERROR has a non-empty error message, and an item that is IDLE has
   neither result nor error. *)
C21_StatusFieldsConsistent ==
  \A i \in DOMAIN items : Consistent(items[i])

----------------------------------------------------------------------------
\* the call p of run r is made in this step (analyzeItem is entered)
CallStarts(r, p) ==
  /\ r \in DOMAIN runs' /\ p \in DOMAIN runs'[r].tasks
  /\ (r \notin DOMAIN runs \/ p \notin DOMAIN runs[r].tasks)

\* the document is in the store and waits for an analysis
InStoreAndPending(id) ==
  id \in Ids(items) /\ StatusOf(items, id) \in {IDLE, ERROR}

(* C22: a request is issued only for a document that is in the store and
   IDLE or ERROR: the call that issues it is made for such a document only,
   also when a batch run or the selection chose the document earlier, and
   when the request goes out the document is still in the store. *)
C22_RequestsOnlyForPending ==
  [][/\ \A r \in DOMAIN runs' : \A p \in DOMAIN runs'[r].tasks :
          CallStarts(r, p) => InStoreAndPending(runs'[r].tasks[p].id)
     /\ \A r \in DOMAIN runs : \A p \in DOMAIN runs[r].tasks :
          IssuesRequest(r, p) => runs[r].tasks[p].id \in Ids(items)]_vars

----------------------------------------------------------------------------
\* an extraction of the document is under way: an analyzeItem call for it
\* encodes the file or has its request at the endpoint, and its outcome is
\* not yet applied
ExtractionPending(id) ==
  \E r \in DOMAIN runs : \E p \in DOMAIN runs[r].tasks :
    runs[r].tasks[p].id = id /\ runs[r].tasks[p].phase # "settled"

(* C23: in every reachable state a document of the store is ANALYZING if and
   only if an extraction for it is under way (its outcome not yet applied);
   a document shown as SUCCESS, ERROR or IDLE has no pending extraction that
   can still change it.  The encoding of the file, which analyzeItem does
   between the ANALYZING mark and the request, counts as part of the
   extraction. *)
C23_AnalyzingIffPending ==
  \A i \in DOMAIN items :
    (items[i].status = ANALYZING) <=> ExtractionPending(items[i].id)

====
